---------------------------- MODULE Spec2Model ----------------------------
(***************************************************************************)
(* Model of cogs/stickers.py: the Stickers cog.                            *)
(*                                                                         *)
(* Strings are sequences of one-character (or one-token) strings, so that  *)
(* split, capitalize, join, format and strip are computed, not assumed.    *)
(* Python dicts are functions with a dynamic domain; insertion-ordered     *)
(* dicts that the code iterates (sticker_dict) are sequences of pairs.     *)
(***************************************************************************)
EXTENDS Naturals, Integers, Sequences, FiniteSets, TLC

\* ------------------------------------------------------------------ bounds
\* Most files listed inside one category directory.
MaxFiles == 2
\* Number of distinct string-hash seeds a process may start with.
NumSeeds == 2
\* Most webhooks the guild holds at a time.
MaxWebhooks == 2

\* ----------------------------------------------------------------- strings
Lowers == <<"b", "e", "g", "m", "o", "w">>
Uppers == <<"B", "E", "G", "M", "O", "W">>

\* str.upper() of one character
Upper(c) ==
    IF \E i \in DOMAIN Lowers : Lowers[i] = c
    THEN Uppers[CHOOSE i \in DOMAIN Lowers : Lowers[i] = c]
    ELSE c

\* str.lower() of one character
Lower(c) ==
    IF \E i \in DOMAIN Uppers : Uppers[i] = c
    THEN Lowers[CHOOSE i \in DOMAIN Uppers : Uppers[i] = c]
    ELSE c

\* str.capitalize(): first character upper-cased, the rest lower-cased
capitalize(word) ==
    [i \in DOMAIN word |-> IF i = 1 THEN Upper(word[i]) ELSE Lower(word[i])]

\* str.split(sep): the words between the separators (empty words kept)
RECURSIVE split(_, _)
split(name, sep) ==
    IF \A i \in DOMAIN name : name[i] # sep
    THEN <<name>>
    ELSE LET i == CHOOSE j \in DOMAIN name :
                      /\ name[j] = sep
                      /\ \A k \in 1..(j - 1) : name[k] # sep
         IN  <<SubSeq(name, 1, i - 1)>> \o split(SubSeq(name, i + 1, Len(name)), sep)

\* sep.join(words)
RECURSIVE join(_, _)
join(sep, words) ==
    IF words = <<>> THEN <<>>
    ELSE IF Len(words) = 1 THEN words[1]
    ELSE words[1] \o sep \o join(sep, Tail(words))

MapCapitalize(words) == [i \in DOMAIN words |-> capitalize(words[i])]

snake_to_camel(name) == join(<<>>, MapCapitalize(split(name, "_")))

snake_to_title(name) == join(<<" ">>, MapCapitalize(split(name, "_")))

Whitespace == {" ", "\n"}

\* str.strip()
RECURSIVE strip(_)
strip(s) ==
    IF s = <<>> THEN s
    ELSE IF s[1] \in Whitespace THEN strip(Tail(s))
    ELSE IF s[Len(s)] \in Whitespace THEN strip(SubSeq(s, 1, Len(s) - 1))
    ELSE s

\* str.format(arg) of a template whose replacement field is the token "{}"
RECURSIVE format(_, _)
format(template, arg) ==
    IF template = <<>> THEN <<>>
    ELSE (IF template[1] = "{}" THEN arg ELSE <<template[1]>>)
         \o format(Tail(template), arg)

\* ------------------------------------------------------------ dictionaries
EmptyDict == [k \in {} |-> {}]

\* d[k] = v
Put(d, k, v) == [x \in DOMAIN d \cup {k} |-> IF x = k THEN v ELSE d[x]]

\* dict.update(doc): every key of doc replaces or adds, the others stay
update(config, doc) ==
    [k \in DOMAIN config \cup DOMAIN doc |->
        IF k \in DOMAIN doc THEN doc[k] ELSE config[k]]

\* Python's None as the value of a 'file' field
NoFile == <<>>

\* --------------------------------------------------------------- constants
IMAGE_SUFFIXES == {".gif", ".jpeg", ".jpg", ".png", ".mp4", ".webm"}
IMAGE_AND_JSON_SUFFIXES == IMAGE_SUFFIXES \cup {".json"}

\* IMAGE_SUFFIXES is a Python set of str: its iteration order is fixed by the
\* string hashes, which are salted per process (PYTHONHASHSEED).  A seed picks
\* one of the orders a process can have: a rotation of this enumeration.
SuffixEnum == <<".gif", ".jpeg", ".jpg", ".png", ".mp4", ".webm">>
Seeds == 0..(NumSeeds - 1)
SuffixOrder(s) ==
    [i \in DOMAIN SuffixEnum |-> SuffixEnum[((i - 1 + s) % Len(SuffixEnum)) + 1]]


\* ------------------------------------------------- the filesystem snapshot
\* A descriptor file as open() and json.load see it.
Absent == [state |-> "absent", doc |-> EmptyDict]
Malformed == [state |-> "malformed", doc |-> EmptyDict]
Parsed(doc) == [state |-> "ok", doc |-> doc]

CatStems == {<<"g", "_", "b">>, <<"w", "o">>}

CatDocs ==
    { [prefix |-> <<"P">>, message |-> <<"Pack:", " ", "{}">>, hidden |-> FALSE],
      [name |-> <<"M", "e">>, file |-> <<"t", ".png">>] }

CatDescriptors == {Absent, Malformed} \cup {Parsed(d) : d \in CatDocs}

ThumbSets == {{}, {".gif", ".png"}}

ItemDocs ==
    { [file |-> <<"alt", ".png">>, name |-> <<"M", "e">>],
      [aliases |-> << <<"M", "e">> >>, message |-> <<"hi">>, hidden |-> FALSE] }

Media(stem, suffix) ==
    [stem |-> stem, suffix |-> suffix, is_file |-> TRUE, desc |-> Absent]

\* The entries a category directory may list.
FileEntries ==
    { Media(<<"w", "o">>, ".png"),
      Media(<<"m", "E">>, ".gif"),
      Media(<<"n">>, ".txt") }
    \cup { [stem |-> <<"w", "o">>, suffix |-> ".json", is_file |-> TRUE, desc |-> d] :
              d \in {Malformed} \cup {Parsed(x) : x \in ItemDocs} }

FileName(f) == f.stem \o <<f.suffix>>

\* Listings of a directory: no two entries of one directory share a file name.
FileSeqs ==
    { fs \in UNION {[1..n -> FileEntries] : n \in 0..MaxFiles} :
        \A i, j \in DOMAIN fs : i # j => FileName(fs[i]) # FileName(fs[j]) }

\* A category directory of the root with what the root holds beside it:
\* <stem>.<ext> thumbnails and the <stem>.json descriptor.
DirEntries ==
    [stem : CatStems, thumbs : ThumbSets, desc : CatDescriptors, files : FileSeqs]

\* ------------------------------------------------------------ the commands
\* bot.add_command(cmd) is discord.py's GroupMixin.add_command (the library the
\* cog imports at lines 5-7): a name or an alias that is already registered
\* raises, the registrations made before it stay.
RECURSIVE AddAliases(_, _, _)
AddAliases(cmds, cmd, aliases) ==
    IF aliases = <<>> THEN [all_commands |-> cmds, raised |-> FALSE]
    ELSE IF aliases[1] \in DOMAIN cmds THEN [all_commands |-> cmds, raised |-> TRUE]
    ELSE AddAliases(Put(cmds, aliases[1], cmd), cmd, Tail(aliases))

\* A registry that lets the later registration take a key that is taken.
RECURSIVE PutAll(_, _, _)
PutAll(cmds, keys, cmd) ==
    IF keys = <<>> THEN cmds ELSE PutAll(Put(cmds, keys[1], cmd), Tail(keys), cmd)

add_command_lastwins(cmds, cmd) ==
    [all_commands |-> PutAll(cmds, <<cmd.name>> \o cmd.aliases, cmd), raised |-> FALSE]

add_command(cmds, cmd) ==
    IF cmd.name \in DOMAIN cmds
    THEN [all_commands |-> cmds, raised |-> TRUE]
    ELSE AddAliases(Put(cmds, cmd.name, cmd), cmd, cmd.aliases)

\* _sticker_command: the values the callback closes over, and the Command
_sticker_command(config) ==
    [kind |-> "sticker", name |-> config.name, aliases |-> config.aliases,
     hidden |-> config.hidden, file |-> config.file, message |-> config.message]

\* _category_command: the listing is formatted here, once, from sticker_names
_category_command(config) ==
    [kind |-> "category", name |-> config.name, aliases |-> <<>>,
     hidden |-> config.hidden, file |-> config.file,
     message |-> strip(format(config.message, join(<<" ">>, config.sticker_names)))]

\* ---------------------------------------------------------- _walk_category
StickerDefaults(prefix, stem) ==
    [hidden |-> TRUE, name |-> prefix \o snake_to_camel(stem), aliases |-> <<>>,
     message |-> <<>>, file |-> NoFile]

StickerPath(dir, f) == dir \o <<"/">> \o FileName(f)

HasKey(dict, key) == \E i \in DOMAIN dict : dict[i].key = key
IndexOf(dict, key) == CHOOSE i \in DOMAIN dict : dict[i].key = key

\* A loop pass that treats a descriptor that fails to parse as one that is
\* not there.
ObserveFile_swallow(dict, dir, f, prefix) ==
    IF ~(f.is_file /\ f.suffix \in IMAGE_AND_JSON_SUFFIXES)
    THEN [sticker_dict |-> dict, error |-> "none"]
    ELSE
      LET key == f.stem
          d1  == IF HasKey(dict, key) THEN dict
                 ELSE Append(dict, [key |-> key, config |-> StickerDefaults(prefix, f.stem)])
          i   == IndexOf(d1, key)
      IN  IF f.suffix \in IMAGE_SUFFIXES
          THEN [sticker_dict |-> [d1 EXCEPT ![i].config.file = StickerPath(dir, f)],
                error |-> "none"]
          ELSE IF f.desc.state # "ok"
          THEN [sticker_dict |-> d1, error |-> "none"]
          ELSE [sticker_dict |-> [d1 EXCEPT ![i].config = update(@, f.desc.doc)],
                error |-> "none"]

\* One pass of the loop at lines 112-133 over the directory entry f.
ObserveFile(dict, dir, f, prefix) ==
    IF ~(f.is_file /\ f.suffix \in IMAGE_AND_JSON_SUFFIXES)
    THEN [sticker_dict |-> dict, error |-> "none"]
    ELSE
      LET key == f.stem
          d1  == IF HasKey(dict, key) THEN dict
                 ELSE Append(dict, [key |-> key, config |-> StickerDefaults(prefix, f.stem)])
          i   == IndexOf(d1, key)
      IN  IF f.suffix \in IMAGE_SUFFIXES
          THEN [sticker_dict |-> [d1 EXCEPT ![i].config.file = StickerPath(dir, f)],
                error |-> "none"]
          ELSE IF f.desc.state \in {"absent", "unreadable"}
          THEN [sticker_dict |-> d1, error |-> "none"]
          ELSE IF f.desc.state = "malformed"
          THEN [sticker_dict |-> d1, error |-> "JSONDecodeError"]
          ELSE [sticker_dict |-> [d1 EXCEPT ![i].config = update(@, f.desc.doc)],
                error |-> "none"]

RECURSIVE CollectFiles(_, _, _, _)
CollectFiles(dict, dir, files, prefix) ==
    IF files = <<>> THEN [sticker_dict |-> dict, error |-> "none"]
    ELSE LET r == ObserveFile(dict, dir, files[1], prefix)
         IN  IF r.error # "none" THEN r
             ELSE CollectFiles(r.sticker_dict, dir, Tail(files), prefix)

\* A register loop whose callbacks read the loop's last config when called.
RECURSIVE RegisterStickers_latebound(_, _, _, _)
RegisterStickers_latebound(dict, i, names, cmds) ==
    IF i > Len(dict)
    THEN [sticker_names |-> names, all_commands |-> cmds, error |-> "none"]
    ELSE LET config == dict[i].config
             last   == dict[Len(dict)].config
             names1 == Append(names, config.name)
             r      == add_command(cmds, _sticker_command(
                           [config EXCEPT !.message = last.message, !.file = last.file]))
         IN  IF r.raised
             THEN [sticker_names |-> names1, all_commands |-> r.all_commands,
                   error |-> "CommandRegistrationError"]
             ELSE RegisterStickers_latebound(dict, i + 1, names1, r.all_commands)

\* The loop at lines 136-141 from its i-th config on.
RECURSIVE RegisterStickers(_, _, _, _)
RegisterStickers(dict, i, names, cmds) ==
    IF i > Len(dict)
    THEN [sticker_names |-> names, all_commands |-> cmds, error |-> "none"]
    ELSE LET config == dict[i].config
             names1 == Append(names, config.name)
             r      == add_command(cmds, _sticker_command(config))
         IN  IF r.raised
             THEN [sticker_names |-> names1, all_commands |-> r.all_commands,
                   error |-> "CommandRegistrationError"]
             ELSE RegisterStickers(dict, i + 1, names1, r.all_commands)

\* A walk that lists each sticker under the name it had when its stem was
\* first seen.
_walk_category_firstnames(dir, files, prefix, cmds) ==
    LET c == CollectFiles(<<>>, dir, files, prefix)
    IN  IF c.error # "none"
        THEN [sticker_dict |-> c.sticker_dict, sticker_names |-> <<>>,
              all_commands |-> cmds, error |-> c.error]
        ELSE LET r == RegisterStickers(c.sticker_dict, 1, <<>>, cmds)
             IN  [sticker_dict |-> c.sticker_dict,
                  sticker_names |-> [n \in DOMAIN r.sticker_names |->
                        StickerDefaults(prefix, c.sticker_dict[n].key).name],
                  all_commands |-> r.all_commands, error |-> r.error]

_walk_category(dir, files, prefix, cmds) ==
    LET c == CollectFiles(<<>>, dir, files, prefix)
    IN  IF c.error # "none"
        THEN [sticker_dict |-> c.sticker_dict, sticker_names |-> <<>>,
              all_commands |-> cmds, error |-> c.error]
        ELSE LET r == RegisterStickers(c.sticker_dict, 1, <<>>, cmds)
             IN  [sticker_dict |-> c.sticker_dict, sticker_names |-> r.sticker_names,
                  all_commands |-> r.all_commands, error |-> r.error]

\* --------------------------------------------------------------- _walk_root
\* The code-fence token of the default listing template (three backquotes).
Fence == "FENCE"

CategoryDefaults(stem) ==
    [hidden |-> TRUE, name |-> snake_to_camel(stem), prefix |-> <<>>,
     message |-> snake_to_title(stem) \o <<" ", "stickers", "\n", Fence, "{}", Fence>>,
     file |-> NoFile]

\* Lines 50-54: the first suffix, in the set's iteration order, whose
\* <stem><ext> exists at the root.
FindThumb(stem, thumbs, order) ==
    IF \E i \in DOMAIN order : order[i] \in thumbs
    THEN LET i == CHOOSE j \in DOMAIN order :
                      /\ order[j] \in thumbs
                      /\ \A k \in 1..(j - 1) : order[k] \notin thumbs
         IN  stem \o <<order[i]>>
    ELSE NoFile

\* Lines 41-60: the defaults, the thumbnail, then the descriptor laid over them.
\* json.load raising is not an IOError: it leaves the try block uncaught.
ResolveCategory(dir, order) ==
    LET c0 == [CategoryDefaults(dir.stem) EXCEPT
                  !.file = FindThumb(dir.stem, dir.thumbs, order)]
    IN  IF dir.desc.state = "ok"
        THEN [config |-> update(c0, dir.desc.doc), error |-> "none"]
        ELSE IF dir.desc.state = "malformed"
        THEN [config |-> c0, error |-> "JSONDecodeError"]
        ELSE [config |-> c0, error |-> "none"]

\* The cog's state after __init__ ran line 26-28, before _walk_root.
NewCog ==
    [pc |-> "walk_root", error |-> "none",
     category_config |-> EmptyDict, sticker_dict |-> <<>>, sticker_names |-> <<>>,
     category_names |-> <<>>, category_sticker_names |-> EmptyDict,
     all_commands |-> EmptyDict]

Raise(b, err) == [b EXCEPT !.pc = "failed", !.error = err]

\* One pass of the loop at lines 39-75 over a directory of the root.
WalkDir(b, dir, order) ==
    LET rc == ResolveCategory(dir, order)
        b1 == [b EXCEPT !.category_config = rc.config,
                        !.sticker_dict = <<>>, !.sticker_names = <<>>]
    IN  IF rc.error # "none" THEN Raise(b1, rc.error)
        ELSE
          LET name == rc.config.name
              w    == _walk_category(dir.stem, dir.files, rc.config.prefix,
                                     b.all_commands)
              b2   == [b1 EXCEPT !.category_names = Append(@, name),
                                 !.sticker_dict = w.sticker_dict,
                                 !.sticker_names = w.sticker_names,
                                 !.all_commands = w.all_commands]
          IN  IF w.error # "none" THEN Raise(b2, w.error)
              ELSE
                LET config == update(rc.config, [sticker_names |-> w.sticker_names])
                    r      == add_command(w.all_commands, _category_command(config))
                    b3     == [b2 EXCEPT
                                  !.category_sticker_names =
                                      Put(@, name, w.sticker_names),
                                  !.category_config = config,
                                  !.all_commands = r.all_commands]
                IN  IF r.raised THEN Raise(b3, "CommandRegistrationError") ELSE b3

\* --------------------------------------------------------------------- state
VARIABLES
    seed,            \* the string-hash seed of the process
    cog,             \* the cog and the bot's commands: the fields of NewCog
    prev,            \* cog as it was when the last pass of _walk_root began
    visited,         \* stems of the root's directories iterated so far
    entry,           \* the directory entry the last pass of _walk_root read
    guild_webhooks,  \* what ctx.guild.webhooks() enumerates, in its order
    inv              \* the invocations in flight, by request

build_vars == <<seed, cog, prev, visited, entry>>
vars == <<seed, cog, prev, visited, entry, guild_webhooks, inv>>

NoEntry == [stem |-> <<>>, thumbs |-> {}, desc |-> Absent, files |-> <<>>]

\* ------------------------------------------------------------ the transport
\* The guild's channels.  Discord does not keep channel names unique: channels
\* 1 and 2 carry the same name.
ChannelIds == {1, 2, 3}
ChannelName(c) == IF c = 3 THEN <<"random">> ELSE <<"general">>

\* Python's None as a webhook's token (a webhook whose token the bot cannot see)
NoToken == "None"
Webhooks == [channel_id : ChannelIds, token : {NoToken, "tok"}]
WebhookLists == UNION {[1..n -> Webhooks] : n \in 0..MaxWebhooks}

\* The requests in flight at a time.  A callback writes nothing but its own
\* invocation, so two are enough to interleave every pair of steps.
Requests == {1, 2}

\* ctx.author of a request
Author(r) == [display_name |-> <<"user", r>>, avatar_url |-> <<"avatar", r>>]

NoSend == [via |-> 0, username |-> <<>>, avatar_url |-> <<>>, content |-> <<>>,
           file |-> NoFile]

\* A request slot with no invocation in it.
Idle ==
    [pc |-> "idle", cmd |-> EmptyDict, channel |-> 0, found |-> 0, log |-> <<>>,
     present |-> TRUE, notice |-> <<>>, sent |-> NoSend]

Init ==
    /\ seed \in Seeds
    /\ cog = NewCog
    /\ prev = NewCog
    /\ visited = {}
    /\ entry = NoEntry
    /\ guild_webhooks = <<>>
    /\ inv = [r \in Requests |-> Idle]

\* root.iterdir() yields a directory
WalkRootDir ==
    /\ cog.pc = "walk_root"
    /\ \E dir \in DirEntries :
        /\ dir.stem \notin visited
        /\ visited' = visited \cup {dir.stem}
        /\ entry' = dir
        /\ prev' = cog
        /\ cog' = WalkDir(cog, dir, SuffixOrder(seed))
    /\ UNCHANGED <<seed, guild_webhooks, inv>>

\* root.iterdir() is exhausted: __init__ returns
WalkRootDone ==
    /\ cog.pc = "walk_root"
    /\ cog' = [cog EXCEPT !.pc = "ready"]
    /\ UNCHANGED <<seed, prev, visited, entry, guild_webhooks, inv>>

Next == WalkRootDir \/ WalkRootDone

Spec == Init /\ [][Next]_vars

\* ---------------------------------------------------------------- dispatch
\* A search that takes a webhook of the channel's name with or without a token.
FindWebhook_anytoken(whs, channel_name) ==
    IF \E i \in DOMAIN whs : ChannelName(whs[i].channel_id) = channel_name
    THEN CHOOSE i \in DOMAIN whs :
          /\ ChannelName(whs[i].channel_id) = channel_name
          /\ \A j \in 1..(i - 1) : ChannelName(whs[j].channel_id) # channel_name
    ELSE 0

\* Lines 157-161: the first webhook, in enumeration order, whose channel has
\* the invoking channel's name and whose token is not None; 0 for None.
FindWebhook(whs, channel_name) ==
    IF \E i \in DOMAIN whs :
          ChannelName(whs[i].channel_id) = channel_name /\ whs[i].token # NoToken
    THEN CHOOSE i \in DOMAIN whs :
          /\ ChannelName(whs[i].channel_id) = channel_name /\ whs[i].token # NoToken
          /\ \A j \in 1..(i - 1) :
                ~(ChannelName(whs[j].channel_id) = channel_name /\ whs[j].token # NoToken)
    ELSE 0

\* A callback that sends without deleting the message first.
NextAwait_nodelete(pc, ok, found) ==
    IF ~ok THEN "raised"
    ELSE IF pc = "lookup" THEN (IF found = 0 THEN "notice" ELSE "send")
    ELSE IF pc = "delete" THEN "send"
    ELSE "returned"

\* Where a callback goes after the call it awaited at pc returned (ok) or
\* raised: lines 158-174 of the sticker callback, line 89 of the category's.
NextAwait(pc, ok, found) ==
    IF ~ok THEN "raised"
    ELSE IF pc = "lookup" THEN (IF found = 0 THEN "notice" ELSE "delete")
    ELSE IF pc = "delete" THEN "send"
    ELSE "returned"

\* Line 174: what webhook.send is given.
Payload(cmd, author, found) ==
    [via |-> found, username |-> author.display_name,
     avatar_url |-> author.avatar_url, content |-> cmd.message, file |-> cmd.file]

\* Lines 163-165: the notice's text.
MissingWebhook(channel) == <<"Missing webhook for #">> \o ChannelName(channel)

\* Lines 181-185: the cog's own command, which lists category_names as they
\* are when it is called.
StickersKey == <<"stickers">>

stickers(self) ==
    [kind |-> "stickers", name |-> StickersKey, aliases |-> <<>>, hidden |-> FALSE,
     file |-> NoFile,
     message |-> strip(<<"Here's a list of our sticker packs!", "\n", Fence>>
                       \o join(<<" ">>, self.category_names) \o <<Fence, " ", "shop">>)]

Logged(i, op, ok) == Append(i.log, [op |-> op, ok |-> ok])

\* The framework calls the callback of the command registered under a key;
\* the callback runs to its first await (lines 154-158, or 88-89): it opens
\* the file it closed over, which raises when the file is gone.
Invoke(r) ==
    /\ cog.pc = "ready"
    /\ inv[r].pc = "idle"
    /\ \E key \in DOMAIN cog.all_commands \cup {StickersKey},
          ch \in ChannelIds, opened \in BOOLEAN :
        LET cmd == IF key \in DOMAIN cog.all_commands THEN cog.all_commands[key]
                   ELSE stickers(cog)
        IN  /\ cmd.file = NoFile => opened
            /\ inv' = [inv EXCEPT ![r] =
                  [Idle EXCEPT !.cmd = cmd, !.channel = ch,
                               !.pc = IF ~opened THEN "raised"
                                      ELSE IF cmd.kind = "sticker" THEN "lookup"
                                      ELSE "reply"]]
    /\ UNCHANGED <<build_vars, guild_webhooks>>

\* await ctx.guild.webhooks() returns or raises (lines 158-162)
Lookup(r) ==
    /\ inv[r].pc = "lookup"
    /\ \E ok \in BOOLEAN :
        LET found == IF ok THEN FindWebhook(guild_webhooks, ChannelName(inv[r].channel))
                     ELSE 0
        IN  inv' = [inv EXCEPT ![r].found = found,
                               ![r].log = Logged(inv[r], "webhooks", ok),
                               ![r].pc = NextAwait("lookup", ok, found)]
    /\ UNCHANGED <<build_vars, guild_webhooks>>

\* await ctx.send('Missing webhook for #...', delete_after=8) (lines 163-166)
Notice(r) ==
    /\ inv[r].pc = "notice"
    /\ \E ok \in BOOLEAN :
        inv' = [inv EXCEPT ![r].notice = IF ok THEN MissingWebhook(inv[r].channel) ELSE @,
                           ![r].log = Logged(inv[r], "notice", ok),
                           ![r].pc = NextAwait("notice", ok, inv[r].found)]
    /\ UNCHANGED <<build_vars, guild_webhooks>>

\* await ctx.message.delete() (line 173)
DeleteMessage(r) ==
    /\ inv[r].pc = "delete"
    /\ \E ok \in BOOLEAN :
        inv' = [inv EXCEPT ![r].present = ~ok,
                           ![r].log = Logged(inv[r], "delete", ok),
                           ![r].pc = NextAwait("delete", ok, inv[r].found)]
    /\ UNCHANGED <<build_vars, guild_webhooks>>

\* await webhook.send(...) (line 174)
WebhookSend(r) ==
    /\ inv[r].pc = "send"
    /\ \E ok \in BOOLEAN :
        inv' = [inv EXCEPT ![r].sent = Payload(inv[r].cmd, Author(r), inv[r].found),
                           ![r].log = Logged(inv[r], "send", ok),
                           ![r].pc = NextAwait("send", ok, inv[r].found)]
    /\ UNCHANGED <<build_vars, guild_webhooks>>

\* await ctx.send(...) of the category callback (line 89) or of stickers
\* (line 185)
Reply(r) ==
    /\ inv[r].pc = "reply"
    /\ \E ok \in BOOLEAN :
        inv' = [inv EXCEPT ![r].notice = IF ok THEN inv[r].cmd.message ELSE @,
                           ![r].log = Logged(inv[r], "reply", ok),
                           ![r].pc = NextAwait("reply", ok, inv[r].found)]
    /\ UNCHANGED <<build_vars, guild_webhooks>>

\* the framework is done with a callback that returned or raised
Complete(r) ==
    /\ inv[r].pc \in {"returned", "raised"}
    /\ inv' = [inv EXCEPT ![r] = Idle]
    /\ UNCHANGED <<build_vars, guild_webhooks>>

\* The snapshots the dispatch is checked over: one category directory holding
\* two stickers, or one sticker with a descriptor beside it.
ServeDir(second) ==
    [stem |-> <<"g", "_", "b">>, thumbs |-> {}, desc |-> Absent,
     files |-> <<Media(<<"w", "o">>, ".png"), second>>]

ServeDirs ==
    { ServeDir(Media(<<"m", "E">>, ".gif")) }
    \cup { ServeDir([stem |-> <<"w", "o">>, suffix |-> ".json", is_file |-> TRUE,
                     desc |-> Parsed(d)]) : d \in {x \in ItemDocs : "aliases" \in DOMAIN x} }

\* Stickers(bot) over a root that holds the one directory dir (lines 25-29),
\* in a process whose hash seed is s.
Constructed(dir, s) == [WalkDir(NewCog, dir, SuffixOrder(s)) EXCEPT !.pc = "ready"]

\* The state once the cog has been constructed and the bot serves.  The
\* callbacks iterate no set, so one seed stands for all.
InitDispatch ==
    /\ seed = 0
    /\ prev = NewCog
    /\ \E dir \in ServeDirs :
        /\ cog = Constructed(dir, 0)
        /\ entry = dir
        /\ visited = {dir.stem}
    /\ guild_webhooks \in WebhookLists
    /\ inv = [r \in Requests |-> Idle]

NextDispatch ==
    \E r \in Requests :
        \/ Invoke(r)
        \/ Lookup(r)
        \/ Notice(r)
        \/ DeleteMessage(r)
        \/ WebhookSend(r)
        \/ Reply(r)
        \/ Complete(r)

SpecDispatch == InitDispatch /\ [][NextDispatch]_vars

\* ------------------------------------------------- properties of the build
\* The last pass got through the category descriptor and every listed file.
Collected == entry # NoEntry /\ cog.error # "JSONDecodeError"

ConfigOf(dict, key) == dict[IndexOf(dict, key)].config

IsItemFile(f) == f.is_file /\ f.suffix \in IMAGE_AND_JSON_SUFFIXES

Swap(seq, i, j) ==
    [k \in DOMAIN seq |-> IF k = i THEN seq[j] ELSE IF k = j THEN seq[i] ELSE seq[k]]

\* A media file and a descriptor file of one stem, at positions i < j.
StemPair(files, i, j) ==
    /\ i < j
    /\ files[i].stem = files[j].stem
    /\ IsItemFile(files[i]) /\ IsItemFile(files[j])
    /\ (files[i].suffix = ".json") # (files[j].suffix = ".json")

\* C2: a media file and a descriptor file of the same stem give exactly one
\* item config, with the same fields whichever of the two is iterated first.
C2_MergeOrderIrrelevant ==
    Collected =>
      \A i, j \in DOMAIN entry.files :
        StemPair(entry.files, i, j) =>
          LET key   == entry.files[i].stem
              other == CollectFiles(<<>>, entry.stem, Swap(entry.files, i, j),
                                    cog.category_config.prefix).sticker_dict
          IN  /\ Cardinality({k \in DOMAIN cog.sticker_dict :
                                  cog.sticker_dict[k].key = key}) = 1
              /\ Cardinality({k \in DOMAIN other : other[k].key = key}) = 1
              /\ ConfigOf(cog.sticker_dict, key) = ConfigOf(other, key)

\* The descriptor document read for an item stem (empty when none is listed).
ItemDoc(files, key) ==
    IF \E i \in DOMAIN files :
          files[i].stem = key /\ files[i].suffix = ".json" /\ files[i].desc.state = "ok"
    THEN files[CHOOSE i \in DOMAIN files :
                   files[i].stem = key /\ files[i].suffix = ".json"].desc.doc
    ELSE EmptyDict

\* The media paths discovered for an item stem.
MediaPaths(dir, files, key) ==
    { StickerPath(dir, files[i]) : i \in { j \in DOMAIN files :
          files[j].stem = key /\ files[j].is_file /\ files[j].suffix \in IMAGE_SUFFIXES } }

\* A value is the default 'file': one of the discovered paths, None if none.
IsDiscovered(value, paths) == IF paths = {} THEN value = NoFile ELSE value \in paths

CategoryOverlayOK ==
    LET doc  == entry.desc.doc
        cfg  == cog.category_config
        dflt == CategoryDefaults(entry.stem)
    IN  /\ \A k \in DOMAIN doc : cfg[k] = doc[k]
        /\ \A k \in DOMAIN dflt \ DOMAIN doc :
              IF k = "file"
              THEN IsDiscovered(cfg.file, {entry.stem \o <<e>> : e \in entry.thumbs})
              ELSE cfg[k] = dflt[k]

ItemOverlayOK(n) ==
    LET key  == cog.sticker_dict[n].key
        cfg  == cog.sticker_dict[n].config
        doc  == ItemDoc(entry.files, key)
        dflt == StickerDefaults(cog.category_config.prefix, key)
    IN  /\ \A k \in DOMAIN doc : cfg[k] = doc[k]
        /\ \A k \in DOMAIN dflt \ DOMAIN doc :
              IF k = "file"
              THEN IsDiscovered(cfg.file, MediaPaths(entry.stem, entry.files, key))
              ELSE cfg[k] = dflt[k]

\* C4: every field a descriptor holds is the resolved value of that field, and
\* every field it does not hold has its default (for 'file' the discovered
\* thumbnail or media path, for an item's 'name' prefix + CamelCase(stem)).
C4_PureOverride ==
    Collected =>
      /\ CategoryOverlayOK
      /\ \A n \in DOMAIN cog.sticker_dict : ItemOverlayOK(n)

\* A descriptor that fails to parse was read by the last pass.
MalformedRead ==
    \/ entry.desc.state = "malformed"
    \/ \E i \in DOMAIN entry.files :
          /\ IsItemFile(entry.files[i])
          /\ entry.files[i].suffix = ".json"
          /\ entry.files[i].desc.state = "malformed"

\* C3 as claimed: a descriptor that fails to parse aborts the build, and the
\* bot then holds no command added by this build.
C3_NothingRegistered ==
    MalformedRead => (cog.pc = "failed" /\ DOMAIN cog.all_commands = {})

\* C3 as amended: a descriptor that fails to parse aborts the build with the
\* parse error, no default is used in its place, and the failing pass adds no
\* command: the bot holds exactly the commands of the categories walked before.
C3_FailingPassRegistersNothing ==
    MalformedRead =>
      /\ cog.pc = "failed"
      /\ cog.error = "JSONDecodeError"
      /\ cog.all_commands = prev.all_commands
      /\ cog.category_sticker_names = prev.category_sticker_names

C3_Witness ==
    /\ MalformedRead
    /\ entry.desc.state # "malformed"
    /\ cog.pc = "failed"
    /\ DOMAIN prev.all_commands # {}

RECURSIVE Flatten(_)
Flatten(seqs) == IF seqs = <<>> THEN <<>> ELSE seqs[1] \o Flatten(Tail(seqs))

\* The keys the last pass asks the bot for, in the order it asks.
ClaimedKeys ==
    Flatten([n \in DOMAIN cog.sticker_dict |->
                <<cog.sticker_dict[n].config.name>> \o cog.sticker_dict[n].config.aliases])
    \o <<cog.category_config.name>>

Collides(keys, taken) ==
    \E i \in DOMAIN keys :
        keys[i] \in taken \/ \E j \in 1..(i - 1) : keys[j] = keys[i]

RECURSIVE FirstSeen(_, _)
FirstSeen(files, seen) ==
    IF files = <<>> THEN <<>>
    ELSE IF IsItemFile(files[1]) /\ files[1].stem \notin seen
    THEN <<files[1].stem>> \o FirstSeen(Tail(files), seen \cup {files[1].stem})
    ELSE FirstSeen(Tail(files), seen)

\* C8: after a pass that succeeded, the category's list of item names is the
\* resolved names of its item configs, one per stem in the order the stems
\* were first seen, and the listing message is formatted from that full list.
C8_ItemNamesComplete ==
    (entry # NoEntry /\ cog.error = "none") =>
      LET stems == FirstSeen(entry.files, {})
          cat   == cog.category_config.name
      IN  /\ Len(cog.sticker_dict) = Len(stems)
          /\ \A i \in DOMAIN stems : HasKey(cog.sticker_dict, stems[i])
          /\ LET names == [i \in DOMAIN stems |->
                              ConfigOf(cog.sticker_dict, stems[i]).name]
             IN  /\ cog.sticker_names = names
                 /\ cog.category_config.sticker_names = names
                 /\ cog.category_sticker_names[cat] = names
                 /\ cog.all_commands[cat].message =
                       strip(format(cog.category_config.message, join(<<" ">>, names)))

C8_Witness ==
    /\ cog.pc = "ready"
    /\ Len(cog.sticker_names) = 2
    /\ Len(entry.files) = 2
    /\ entry.files[2].suffix = ".json"
    /\ DOMAIN prev.all_commands # {}

\* What a build leaves behind.
Result(b) == <<b.error, b.all_commands, b.category_names, b.category_sticker_names>>

\* C9: over the same snapshot in the same iteration order, a start of the
\* process under any other hash seed builds the same result.
C9_BuildDeterministic ==
    entry # NoEntry =>
      \A s \in Seeds : Result(WalkDir(prev, entry, SuffixOrder(s))) = Result(cog)

\* ---------------------------------------------- properties of the dispatch
StickerInvocation(r) == inv[r].pc # "idle" /\ inv[r].cmd.kind = "sticker"

Ops(log) == [i \in DOMAIN log |-> log[i].op]

Did(r, op) == \E i \in DOMAIN inv[r].log : inv[r].log[i].op = op

\* The guild holds a webhook of a channel with this channel's name and a token.
Qualifying(channel) ==
    \E i \in DOMAIN guild_webhooks :
        /\ ChannelName(guild_webhooks[i].channel_id) = ChannelName(channel)
        /\ guild_webhooks[i].token # NoToken

LookedUp(r) == inv[r].log # <<>> /\ inv[r].log[1] = [op |-> "webhooks", ok |-> TRUE]

\* C1: while the guild holds no webhook with the invoking channel's name and a
\* token, a sticker invocation never deletes the message and never attempts a
\* delivery; once its lookup returned it sends the notice 'Missing webhook for
\* #<channel>' and ends.
C1_NoWebhookNoSideEffect ==
    \A r \in Requests :
        (StickerInvocation(r) /\ ~Qualifying(inv[r].channel)) =>
            /\ ~Did(r, "delete") /\ ~Did(r, "send")
            /\ inv[r].present /\ inv[r].sent = NoSend
            /\ LookedUp(r) =>
                /\ inv[r].pc \in {"notice", "returned", "raised"}
                /\ inv[r].pc # "notice" => Ops(inv[r].log) = <<"webhooks", "notice">>
                /\ inv[r].pc = "returned" =>
                      inv[r].notice = <<"Missing webhook for #">> \o ChannelName(inv[r].channel)

C1_Witness ==
    \E r \in Requests :
        /\ StickerInvocation(r) /\ ~Qualifying(inv[r].channel)
        /\ inv[r].pc = "returned"
        /\ \E i \in DOMAIN guild_webhooks :
              guild_webhooks[i].channel_id = inv[r].channel

\* C6: with a webhook found, the calls go lookup, delete, send, each at most
\* once; the send is attempted only after the delete returned, through the
\* webhook found and under the author's name and avatar; a call that raises
\* ends the invocation; a message deleted stays deleted when the send raises.
C6_LookupDeleteSend ==
    \A r \in Requests :
        LET log == inv[r].log
        IN  /\ StickerInvocation(r) =>
                  \A i \in DOMAIN log :
                      ~log[i].ok => (i = Len(log) /\ inv[r].pc = "raised")
            /\ (StickerInvocation(r) /\ inv[r].found # 0) =>
                /\ Ops(log) = SubSeq(<<"webhooks", "delete", "send">>, 1, Len(log))
                /\ inv[r].pc = "raised" => ~log[Len(log)].ok
                /\ inv[r].present <=> ~(Len(log) >= 2 /\ log[2].ok)
                /\ IF Did(r, "send")
                   THEN /\ ~inv[r].present
                        /\ inv[r].sent.via = inv[r].found
                        /\ inv[r].sent.username = Author(r).display_name
                        /\ inv[r].sent.avatar_url = Author(r).avatar_url
                   ELSE inv[r].sent = NoSend

C6_Witness ==
    \E r \in Requests :
        /\ StickerInvocation(r) /\ inv[r].found # 0
        /\ inv[r].pc = "raised"
        /\ Did(r, "send")
        /\ ~inv[r].present

\* C7: the webhook used is the first, in enumeration order, of the webhooks
\* bound to the invoking channel that carry a token; a webhook without a
\* token or bound to another channel is never selected.
C7_OwnChannelWebhook ==
    \A r \in Requests :
        (StickerInvocation(r) /\ LookedUp(r)) =>
            LET own == { i \in DOMAIN guild_webhooks :
                            /\ guild_webhooks[i].channel_id = inv[r].channel
                            /\ guild_webhooks[i].token # NoToken }
            IN  IF own = {} THEN inv[r].found = 0
                ELSE inv[r].found \in own /\ \A i \in own : inv[r].found <= i

\* C10: a delivery carries the message and the file resolved at build time for
\* the sticker invoked, whatever the other request is doing, and the cog and
\* the bot's commands stay what the build left.
C10_BoundAtBuild ==
    /\ cog = Constructed(entry, seed)
    /\ \A r \in Requests :
          (StickerInvocation(r) /\ Did(r, "send")) =>
              \E n \in DOMAIN cog.sticker_dict :
                  LET config == cog.sticker_dict[n].config
                  IN  /\ config.name = inv[r].cmd.name
                      /\ inv[r].sent.content = config.message
                      /\ inv[r].sent.file = config.file

C10_Witness ==
    \E r, q \in Requests :
        /\ r # q
        /\ StickerInvocation(r) /\ StickerInvocation(q)
        /\ inv[r].cmd.name # inv[q].cmd.name
        /\ inv[r].pc = "returned" /\ Did(r, "send")
        /\ inv[q].pc = "send"

=============================================================================
